---- MODULE Spec2Model ----
(***************************************************************************)
(* Model of the growth-and-decay crate (src/src/lib.rs) and of the driver  *)
(* calls onto it (src/src/main.rs).                                        *)
(*                                                                         *)
(* f64 values are modelled by decimal fixed-point numbers: the integer n   *)
(* stands for n / Scale.  Magnitudes above MaxFin overflow to an infinity, *)
(* as f64 overflow does, and NaN is a value of its own that every          *)
(* comparison rejects.  ln, exp and powf are computed (range reduction     *)
(* plus series), so identities between them hold only up to rounding.      *)
(* Negative zero is not represented.                                       *)
(***************************************************************************)
EXTENDS Integers, Sequences, FiniteSets

\* ------------------------------------------------------------------ f64
Scale == 10 ^ 4
MaxFin == 2000 * Scale
PInf == MaxFin + 1
NInf == 0 - PInf
NaN == MaxFin + 2

One == Scale
Two == 2 * Scale
Ln2 == 6931

IsNaN(x) == x = NaN
IsInf(x) == x = PInf \/ x = NInf
IsFin(x) == ~IsNaN(x) /\ ~IsInf(x)
IsF64(x) == x \in Int /\ (IsNaN(x) \/ IsInf(x) \/ (x >= 0 - MaxFin /\ x <= MaxFin))

AbsI(n) == IF n < 0 THEN 0 - n ELSE n
SignI(n) == IF n < 0 THEN 0 - 1 ELSE IF n > 0 THEN 1 ELSE 0

\* a finite result, or the infinity of its sign when it leaves the range
Clamp(n) == IF n > MaxFin THEN PInf ELSE IF n < 0 - MaxFin THEN NInf ELSE n

\* f64 comparison operators: false whenever an operand is NaN
Lt(a, b) == ~IsNaN(a) /\ ~IsNaN(b) /\ a < b
Ge(a, b) == ~IsNaN(a) /\ ~IsNaN(b) /\ a >= b
Eq(a, b) == ~IsNaN(a) /\ ~IsNaN(b) /\ a = b

Neg(a) == IF IsNaN(a) THEN NaN ELSE 0 - a
Abs(a) == IF IsNaN(a) THEN NaN ELSE AbsI(a)

Add(a, b) ==
    IF IsNaN(a) \/ IsNaN(b) THEN NaN
    ELSE IF IsInf(a) /\ IsInf(b) THEN (IF a = b THEN a ELSE NaN)
    ELSE IF IsInf(a) THEN a
    ELSE IF IsInf(b) THEN b
    ELSE Clamp(a + b)

Sub(a, b) == Add(a, Neg(b))

\* |a| * |b| / Scale for finite operands, rounded to nearest, by limbs
MulMag(a, b) ==
    LET ah == a \div Scale
        al == a % Scale
        bh == b \div Scale
        bl == b % Scale
    IN  IF ah * bh > MaxFin \div Scale THEN PInf
        ELSE Clamp(ah * bh * Scale + ah * bl + al * bh
                   + (al * bl + Scale \div 2) \div Scale)

Mul(a, b) ==
    IF IsNaN(a) \/ IsNaN(b) THEN NaN
    ELSE IF IsInf(a) \/ IsInf(b)
         THEN (IF a = 0 \/ b = 0 THEN NaN
               ELSE IF SignI(a) * SignI(b) > 0 THEN PInf ELSE NInf)
    ELSE SignI(a) * SignI(b) * MulMag(AbsI(a), AbsI(b))

\* |a| * Scale / |b| for finite operands, b # 0, by long division
DivMag(a, b) ==
    LET q == a \div b
        r0 == a % b
        d1 == (r0 * 100) \div b
        r1 == (r0 * 100) % b
        d2 == (r1 * 100 + b \div 2) \div b
    IN  IF q > MaxFin \div Scale THEN PInf
        ELSE Clamp(q * Scale + d1 * 100 + d2)

Div(a, b) ==
    IF IsNaN(a) \/ IsNaN(b) THEN NaN
    ELSE IF IsInf(a) THEN (IF IsInf(b) THEN NaN
                           ELSE IF b >= 0 THEN a ELSE 0 - a)
    ELSE IF IsInf(b) THEN 0
    ELSE IF b = 0 THEN (IF a = 0 THEN NaN ELSE IF a > 0 THEN PInf ELSE NInf)
    ELSE SignI(a) * SignI(b) * DivMag(AbsI(a), AbsI(b))

\* 2 * atanh(z) = 2 * (z + z^3/3 + z^5/5 + ...), |z| <= 1/3
RECURSIVE AtanhSeries(_, _, _)
AtanhSeries(zpow, z2, k) ==
    IF zpow = 0 \/ k > 15 THEN 0
    ELSE zpow \div k + AtanhSeries(MulMag(zpow, z2), z2, k + 2)

\* ln of a finite x > 0: x = m * 2^e with m in [1, 2)
RECURSIVE LnPos(_)
LnPos(x) ==
    IF x >= Two THEN LnPos((x + 1) \div 2) + Ln2
    ELSE IF x < One THEN LnPos(2 * x) - Ln2
    ELSE LET z == DivMag(x - One, x + One)
         IN  2 * AtanhSeries(z, MulMag(z, z), 1)

Ln(x) ==
    IF IsNaN(x) THEN NaN
    ELSE IF x = PInf THEN PInf
    ELSE IF x < 0 THEN NaN
    ELSE IF x = 0 THEN NInf
    ELSE LnPos(x)

\* 1 + r + r^2/2! + ... for r in [0, ln 2)
RECURSIVE ExpSeries(_, _, _)
ExpSeries(term, r, k) ==
    IF term = 0 \/ k > 12 THEN 0
    ELSE term + ExpSeries(MulMag(term, r) \div k, r, k + 1)

\* m * 2^e for a finite m >= 0, rounded to nearest
Pow2Mul(m, e) ==
    IF e >= 0 THEN (IF e > 12 THEN (IF m = 0 THEN 0 ELSE PInf) ELSE Clamp(m * 2 ^ e))
    ELSE IF e < 0 - 20 THEN 0
    ELSE (m + 2 ^ ((0 - e) - 1)) \div 2 ^ (0 - e)

\* exp of a finite x: x = e * ln 2 + r with r in [0, ln 2)
ExpFin(x) ==
    LET e == IF x >= 0 THEN x \div Ln2 ELSE 0 - ((Ln2 - 1 - x) \div Ln2)
        r == x - e * Ln2
    IN  Pow2Mul(ExpSeries(One, r, 1), e)

Exp(x) ==
    IF IsNaN(x) THEN NaN
    ELSE IF x = PInf THEN PInf
    ELSE IF x = NInf THEN 0
    ELSE ExpFin(x)

\* f64::powf, with the special cases of IEEE 754 pow
Powf(x, y) ==
    LET yInt == IsFin(y) /\ y % Scale = 0
        yOdd == yInt /\ (y \div Scale) % 2 = 1
    IN  IF y = 0 \/ x = One THEN One
        ELSE IF IsNaN(x) \/ IsNaN(y) THEN NaN
        ELSE IF IsInf(y)
             THEN (IF AbsI(x) = One THEN One
                   ELSE IF (AbsI(x) < One) = (y = PInf) THEN 0 ELSE PInf)
        ELSE IF x = PInf THEN (IF y > 0 THEN PInf ELSE 0)
        ELSE IF x = NInf THEN (IF y < 0 THEN 0 ELSE IF yOdd THEN NInf ELSE PInf)
        ELSE IF x = 0 THEN (IF y > 0 THEN 0 ELSE PInf)
        ELSE IF x < 0
             THEN (IF ~yInt THEN NaN
                   ELSE IF yOdd THEN Neg(Exp(Mul(y, Ln(0 - x))))
                   ELSE Exp(Mul(y, Ln(0 - x))))
        ELSE Exp(Mul(y, Ln(x)))

\* ------------------------------------------------------------ Option<f64>
None == [some |-> FALSE, val |-> 0]
Some(x) == [some |-> TRUE, val |-> x]
IsNone(o) == ~o.some
IsSome(o) == o.some

\* Option's derived PartialOrd: None < Some(_), Some(a) < Some(b) iff a < b
OptLt(a, b) ==
    IF IsNone(a) THEN IsSome(b)
    ELSE IsSome(b) /\ Lt(a.val, b.val)

\* ------------------------------------------------------ ExponentialChange
NoExponentialChange == [principal |-> 0, final_value |-> 0, rate |-> 0, time |-> 0]

\* mutant: the assertion left out
MutNoAssertion(final_value, rate) == TRUE

\* the assertion that opens ExponentialChange::new
ProvidedFinalValueOrRate(final_value, rate) ==
    ~(IsNone(final_value) /\ IsNone(rate))

\* mutant: the decay branch without its outer negation
MutDeriveRateNoNeg(principal, final_value, rate, time) ==
    IF IsSome(rate) THEN rate.val
    ELSE IF OptLt(final_value, Some(principal))
         THEN Div(Neg(Ln(Div(final_value.val, principal))), time)
         ELSE Sub(Powf(Div(final_value.val, principal), Div(One, time)), One)

\* rate.unwrap_or_else(...): the rate given, or the one derived from final_value
DeriveRate(principal, final_value, rate, time) ==
    IF IsSome(rate) THEN rate.val
    ELSE IF OptLt(final_value, Some(principal))
         THEN Neg(Div(Neg(Ln(Div(final_value.val, principal))), time))
         ELSE Sub(Powf(Div(final_value.val, principal), Div(One, time)), One)

\* mutant: final_value recomputed from the rate even when it was supplied
MutDeriveFinalValueAlways(principal, final_value, rate, time) ==
    Mul(principal, Powf(Add(One, rate), time))

\* final_value.unwrap_or_else(...): the value given, or principal * (1 + rate)^time
DeriveFinalValue(principal, final_value, rate, time) ==
    IF IsSome(final_value) THEN final_value.val
    ELSE Mul(principal, Powf(Add(One, rate), time))

\* ExponentialChange::new: a panic, or the record built
ExponentialChangeNew(principal, final_value, rate, time) ==
    IF ~ProvidedFinalValueOrRate(final_value, rate)
    THEN [panic |-> "InvalidInput", obj |-> NoExponentialChange]
    ELSE IF IsNone(rate) /\ IsNone(final_value)
    THEN [panic |-> "UnwrapNone", obj |-> NoExponentialChange]
    ELSE LET r == DeriveRate(principal, final_value, rate, time)
         IN  [panic |-> "none",
              obj |-> [principal |-> principal,
                       final_value |-> DeriveFinalValue(principal, final_value, r, time),
                       rate |-> r,
                       time |-> time]]

\* mutant: the time left signed
MutModifyFinalValueNoAbs(self, new_final_value) ==
    [self EXCEPT !.final_value = new_final_value,
                 !.time = Div(Ln(Div(new_final_value, self.principal)), self.rate)]

\* mutant: the rate recomputed for the time held, instead of the time
MutModifyFinalValueRate(self, new_final_value) ==
    [self EXCEPT !.final_value = new_final_value,
                 !.rate = Div(Ln(Div(new_final_value, self.principal)), self.time)]

\* ExponentialChange::modify_final_value
ModifyFinalValueOf(self, new_final_value) ==
    [self EXCEPT !.final_value = new_final_value,
                 !.time = Abs(Div(Ln(Div(new_final_value, self.principal)), self.rate))]

\* mutant: discrete compounding whatever the sign of the rate
MutModifyFinalTimeDiscrete(self, new_time) ==
    [self EXCEPT !.time = new_time,
                 !.final_value = Mul(self.principal, Powf(Add(One, self.rate), new_time))]

\* ExponentialChange::modify_final_time
ModifyFinalTimeOf(self, new_time) ==
    [self EXCEPT !.time = new_time,
                 !.final_value =
                     IF Lt(self.rate, 0)
                     THEN Mul(self.principal, Exp(Mul(self.rate, new_time)))
                     ELSE Mul(self.principal, Powf(Add(One, self.rate), new_time))]

\* ---------------------------------------------------- GrowthOrDecayRatios
NoGrowthOrDecayRatios ==
    [rt |-> 0, r0 |-> 0, decay_constant |-> 0, time |-> 0, decay_years |-> 0]

\* the assertion that opens GrowthOrDecayRatios::new
ProvidedRtOrTime(rt, time) == IsSome(rt) \/ IsSome(time)

\* mutant: the logarithm not negated
MutDeriveTimeNoNeg(rt, r0, decay_years, time) ==
    IF IsSome(time) THEN time.val
    ELSE Mul(Ln(Div(rt.val, r0)), decay_years)

\* time.map_or_else(...): the time given, or -ln(rt / r0) * decay_years
DeriveTime(rt, r0, decay_years, time) ==
    IF IsSome(time) THEN time.val
    ELSE Mul(Neg(Ln(Div(rt.val, r0))), decay_years)

\* rt.unwrap_or_else(...): the ratio given, or r0 * exp(-time / decay_years)
DeriveRt(rt, r0, decay_years, time) ==
    IF IsSome(rt) THEN rt.val
    ELSE Mul(r0, Exp(Div(Neg(time), decay_years)))

\* GrowthOrDecayRatios::new: a panic, or the record built
GrowthOrDecayRatiosNew(rt, r0, decay_years, time) ==
    IF ~ProvidedRtOrTime(rt, time)
    THEN [panic |-> "InvalidInput", obj |-> NoGrowthOrDecayRatios]
    ELSE IF IsNone(time) /\ IsNone(rt)
    THEN [panic |-> "UnwrapNone", obj |-> NoGrowthOrDecayRatios]
    ELSE LET t == DeriveTime(rt, r0, decay_years, time)
         IN  [panic |-> "none",
              obj |-> [rt |-> DeriveRt(rt, r0, decay_years, t),
                       r0 |-> r0,
                       decay_constant |-> Div(Ln(Two), decay_years),
                       time |-> t,
                       decay_years |-> decay_years]]

\* ------------------------------------------------------------- the driver
\* the number of mutator calls made on one ExponentialChange
MaxMutations == 2

\* arguments, in units of 1 / Scale
Principals == {1 * Scale, 5 * Scale}
FinalValueArgs == {None, Some(2 * Scale), Some(5 * Scale), Some(8 * Scale)}
RateArgs == {None, Some(0 - Scale \div 2), Some(0), Some(Scale)}
TimeArgs == {2 * Scale, 3 * Scale}
NewFinalValues == {1 * Scale, 8 * Scale}
NewTimes == {0 - Scale, 2 * Scale, 5 * Scale}
RtArgs == {None, Some(Scale \div 2), Some(Scale)}
R0s == {1 * Scale, 2 * Scale}
DecayYears == {2 * Scale, 8223 * (Scale \div 1000)}
ElapsedArgs == {None, Some(0), Some(3 * Scale), Some(8500 * (Scale \div 1000))}

NoCall == [op |-> "none", arg |-> 0, before |-> 0]

VARIABLES
    kind,      \* which constructor the driver has called: "none", "ec", "gd"
    err,       \* "none", or the panic that ended the program
    ec,        \* the ExponentialChange the driver holds
    ecArgs,    \* the arguments ExponentialChange::new was called with
    built,     \* ec as its constructor returned it
    last,      \* the latest mutator call on ec: op, argument, and the overwritten field before it
    prev,      \* the mutator call before it
    nMut,      \* the number of mutator calls so far
    copied,    \* whether ec2 has been constructed
    ec2,       \* a second ExponentialChange, constructed from ec's fields
    gd,        \* the GrowthOrDecayRatios the driver holds
    gdArgs     \* the arguments GrowthOrDecayRatios::new was called with

vars == <<kind, err, ec, ecArgs, built, last, prev, nMut, copied, ec2, gd, gdArgs>>

Init ==
    /\ kind = "none"
    /\ err = "none"
    /\ ec = NoExponentialChange
    /\ ecArgs = [principal |-> 0, final_value |-> None, rate |-> None, time |-> 0]
    /\ built = NoExponentialChange
    /\ last = NoCall
    /\ prev = NoCall
    /\ nMut = 0
    /\ copied = FALSE
    /\ ec2 = NoExponentialChange
    /\ gd = NoGrowthOrDecayRatios
    /\ gdArgs = [rt |-> None, r0 |-> 0, decay_years |-> 0, time |-> None]

\* let x = ExponentialChange::new(principal, final_value, rate, time)
NewExponentialChange ==
    /\ kind = "none"
    /\ \E principal \in Principals, final_value \in FinalValueArgs,
          rate \in RateArgs, time \in TimeArgs :
          LET res == ExponentialChangeNew(principal, final_value, rate, time)
          IN  /\ kind' = "ec"
              /\ err' = res.panic
              /\ ec' = res.obj
              /\ built' = res.obj
              /\ ecArgs' = [principal |-> principal, final_value |-> final_value,
                            rate |-> rate, time |-> time]
    /\ UNCHANGED <<last, prev, nMut, copied, ec2, gd, gdArgs>>

\* x.modify_final_value(v), v a fresh value or the final_value just read from x
ModifyFinalValue ==
    /\ kind = "ec" /\ err = "none" /\ ~copied /\ nMut < MaxMutations
    /\ \E v \in NewFinalValues \cup {ec.final_value} :
          /\ ec' = ModifyFinalValueOf(ec, v)
          /\ last' = [op |-> "modify_final_value", arg |-> v, before |-> ec.final_value]
    /\ prev' = last
    /\ nMut' = nMut + 1
    /\ UNCHANGED <<kind, err, ecArgs, built, copied, ec2, gd, gdArgs>>

\* x.modify_final_time(t), t a fresh time or the time x was constructed with
ModifyFinalTime ==
    /\ kind = "ec" /\ err = "none" /\ ~copied /\ nMut < MaxMutations
    /\ \E t \in NewTimes \cup {ecArgs.time} :
          /\ ec' = ModifyFinalTimeOf(ec, t)
          /\ last' = [op |-> "modify_final_time", arg |-> t, before |-> ec.time]
    /\ prev' = last
    /\ nMut' = nMut + 1
    /\ UNCHANGED <<kind, err, ecArgs, built, copied, ec2, gd, gdArgs>>

\* let y = ExponentialChange::new(x.principal, x.final_value, None, x.time)
RederiveRate ==
    /\ kind = "ec" /\ err = "none" /\ ~copied
    /\ LET res == ExponentialChangeNew(ec.principal, Some(ec.final_value), None, ec.time)
       IN  /\ err' = res.panic
           /\ ec2' = res.obj
    /\ copied' = TRUE
    /\ UNCHANGED <<kind, ec, ecArgs, built, last, prev, nMut, gd, gdArgs>>

\* let d = GrowthOrDecayRatios::new(rt, r0, decay_years, time)
NewGrowthOrDecayRatios ==
    /\ kind = "none"
    /\ \E rt \in RtArgs, r0 \in R0s, decay_years \in DecayYears, time \in ElapsedArgs :
          LET res == GrowthOrDecayRatiosNew(rt, r0, decay_years, time)
          IN  /\ kind' = "gd"
              /\ err' = res.panic
              /\ gd' = res.obj
              /\ gdArgs' = [rt |-> rt, r0 |-> r0, decay_years |-> decay_years,
                            time |-> time]
    /\ UNCHANGED <<ec, ecArgs, built, last, prev, nMut, copied, ec2>>

Next ==
    \/ NewExponentialChange
    \/ ModifyFinalValue
    \/ ModifyFinalTime
    \/ RederiveRate
    \/ NewGrowthOrDecayRatios

Spec == Init /\ [][Next]_vars

\* ------------------------------------------------------------ properties
MaxI(a, b) == IF a >= b THEN a ELSE b

\* equal within floating tolerance: 2 percent of the larger magnitude plus 0.002
Close(a, b) ==
    IF IsNaN(a) \/ IsNaN(b) THEN FALSE
    ELSE IF IsInf(a) \/ IsInf(b) THEN a = b
    ELSE AbsI(a - b) <= MaxI(AbsI(a), AbsI(b)) \div 50 + 20

Discrete(e) == Mul(e.principal, Powf(Add(One, e.rate), e.time))
Continuous(e) == Mul(e.principal, Exp(Mul(e.rate, e.time)))

\* the consistency C2 speaks of
Consistent(e) ==
    IF Ge(e.rate, 0) THEN Close(e.final_value, Discrete(e))
    ELSE Close(e.final_value, Discrete(e)) \/ Close(e.final_value, Continuous(e))

IsExponentialChange(e) ==
    /\ DOMAIN e = {"principal", "final_value", "rate", "time"}
    /\ \A f \in DOMAIN e : IsF64(e[f])

IsGrowthOrDecayRatios(g) ==
    /\ DOMAIN g = {"rt", "r0", "decay_constant", "time", "decay_years"}
    /\ \A f \in DOMAIN g : IsF64(g[f])

Alive == kind = "ec" /\ err = "none"

\* C1: ExponentialChange::new fails with InvalidInput exactly when final_value and
\* rate are both absent, GrowthOrDecayRatios::new exactly when rt and time are both
\* absent; every other call returns a fully populated record and no other failure.
C1_InvalidInputExactlyWhenBothAbsent ==
    /\ kind = "ec" =>
          /\ (err = "InvalidInput") <=> (IsNone(ecArgs.final_value) /\ IsNone(ecArgs.rate))
          /\ err \in {"none", "InvalidInput"}
          /\ err = "none" => IsExponentialChange(ec) /\ IsExponentialChange(ec2)
    /\ kind = "gd" =>
          /\ (err = "InvalidInput") <=> (IsNone(gdArgs.rt) /\ IsNone(gdArgs.time))
          /\ err \in {"none", "InvalidInput"}
          /\ err = "none" => IsGrowthOrDecayRatios(gd)

C1_Witness ==
    /\ kind = "ec" /\ err = "InvalidInput"
    /\ IsNone(ecArgs.final_value) /\ IsNone(ecArgs.rate)

\* C2: at every observable instant of an ExponentialChange (after the constructor
\* and after every modify_final_value or modify_final_time), final_value
\* equals principal * (1 + rate)^time when rate >= 0, and one of the two formulas
\* when rate < 0.
C2_AlwaysConsistent == Alive => Consistent(ec)

\* C3 as claimed: every GrowthOrDecayRatios returned by the constructor satisfies
\* rt == r0 * exp(-time / decay_years), whichever of rt and time was supplied.
C3_RatioLawAlways ==
    (kind = "gd" /\ err = "none") =>
        Close(gd.rt, Mul(gd.r0, Exp(Div(Neg(gd.time), gd.decay_years))))

\* C3 as amended: the law holds when exactly one of rt and time was supplied
\* (r0, decay_years and a supplied rt positive); when both are supplied they are
\* stored as given.
C3_RatioLawWhenOneDerived ==
    (kind = "gd" /\ err = "none") =>
      /\ (/\ IsSome(gdArgs.rt) # IsSome(gdArgs.time)
          /\ Lt(0, gdArgs.r0) /\ Lt(0, gdArgs.decay_years)
          /\ IsSome(gdArgs.rt) => Lt(0, gdArgs.rt.val))
            => Close(gd.rt, Mul(gd.r0, Exp(Div(Neg(gd.time), gd.decay_years))))
      /\ (IsSome(gdArgs.rt) /\ IsSome(gdArgs.time))
            => gd.rt = gdArgs.rt.val /\ gd.time = gdArgs.time.val

C3_Witness ==
    /\ kind = "gd" /\ err = "none"
    /\ IsSome(gdArgs.rt) /\ IsNone(gdArgs.time)
    /\ gd.rt # gd.r0 /\ Lt(0, gd.time)

\* C4: for principal > 0, every rate and time >= 0, constructing a from the rate and
\* then b from a.final_value re-derives b.rate equal to the rate (within tolerance).
C4_ConstructorRoundTrip ==
    (/\ Alive /\ copied /\ nMut = 0
     /\ IsNone(ecArgs.final_value) /\ IsSome(ecArgs.rate)
     /\ Lt(0, ecArgs.principal) /\ Ge(ecArgs.time, 0))
        => Close(ec2.rate, ecArgs.rate.val)

\* C5: modify_final_time(t) then modify_final_value(the final_value just computed)
\* returns time to t (within tolerance), for every rate, except where the absolute
\* value masks a negative time.
C5_MutatorRoundTrip ==
    (/\ Alive
     /\ prev.op = "modify_final_time"
     /\ last.op = "modify_final_value" /\ last.arg = last.before
     /\ ~Lt(Div(Ln(Div(last.arg, ec.principal)), ec.rate), 0))
        => Close(ec.time, prev.arg)

\* C6: after any sequence of mutator calls principal and rate equal what the
\* constructor stored; only final_value and time change.
C6_PrincipalAndRateFrozen ==
    Alive => ec.principal = built.principal /\ ec.rate = built.rate

C6_Witness ==
    /\ Alive /\ nMut >= 2
    /\ ec.final_value # built.final_value /\ ec.time # built.time

\* C7: modify_final_value(v) sets final_value to v and time to
\* |ln(v / principal) / rate| from the stored rate and principal, so time is never
\* negative afterwards.
C7_ModifyFinalValueTime ==
    (Alive /\ last.op = "modify_final_value") =>
        /\ ec.final_value = last.arg
        /\ ec.time = Abs(Div(Ln(Div(last.arg, built.principal)), built.rate))
        /\ ~Lt(ec.time, 0)

C7_Witness ==
    /\ Alive /\ last.op = "modify_final_value"
    /\ Lt(ec.rate, 0) /\ Lt(ec.principal, last.arg)
    /\ Lt(Div(Ln(Div(last.arg, ec.principal)), ec.rate), 0)
    /\ IsFin(ec.time) /\ Lt(0, ec.time)

\* C8: modify_final_time(t) sets time to t and final_value to
\* principal * exp(rate * t) when rate < 0 and to principal * (1 + rate)^t
\* otherwise; the earlier final_value and time play no part.
C8_ModifyFinalTimeBranch ==
    (Alive /\ last.op = "modify_final_time") =>
        /\ ec.time = last.arg
        /\ ec.final_value =
              IF Lt(built.rate, 0)
              THEN Mul(built.principal, Exp(Mul(built.rate, last.arg)))
              ELSE Mul(built.principal, Powf(Add(One, built.rate), last.arg))

\* problem two of the driver, in thousands: 5000 -> 2000 in 3 hours, then 5 hours
C8_Witness ==
    /\ Alive /\ nMut = 1 /\ last.op = "modify_final_time" /\ last.arg = 5 * Scale
    /\ ecArgs = [principal |-> 5 * Scale, final_value |-> Some(2 * Scale),
                 rate |-> None, time |-> 3 * Scale]
    /\ Lt(ec.rate, 0)
    /\ AbsI(ec.final_value - 10858) <= 20
    /\ ~Close(ec.final_value, Discrete(ec))

\* C9: ExponentialChange::new stores every supplied argument as given; an absent
\* rate is ln(final_value / principal) / time when final_value < principal and
\* (final_value / principal)^(1 / time) - 1 otherwise; an absent final_value is
\* principal * (1 + rate)^time whatever the sign of rate.
C9_ConstructorDerivesOnlyAbsent ==
    Alive =>
      LET p == ecArgs.principal
          t == ecArgs.time
      IN  /\ built.principal = p
          /\ built.time = t
          /\ IsSome(ecArgs.rate) => built.rate = ecArgs.rate.val
          /\ IsSome(ecArgs.final_value) => built.final_value = ecArgs.final_value.val
          /\ IsNone(ecArgs.rate) =>
                built.rate =
                    IF Lt(ecArgs.final_value.val, p)
                    THEN Div(Ln(Div(ecArgs.final_value.val, p)), t)
                    ELSE Sub(Powf(Div(ecArgs.final_value.val, p), Div(One, t)), One)
          /\ IsNone(ecArgs.final_value) =>
                built.final_value = Mul(p, Powf(Add(One, built.rate), t))

C9_Witness ==
    /\ Alive /\ nMut = 0 /\ ~copied
    /\ IsNone(ecArgs.rate) /\ Lt(ecArgs.final_value.val, ecArgs.principal)
    /\ Lt(ec.rate, 0)

\* C10: for an ExponentialChange constructed from final_value with the rate absent
\* (principal, final_value, time > 0), modify_final_time(time of construction)
\* leaves final_value equal to the supplied one, in the decay and the growth branch.
C10_RederivedFinalValue ==
    (/\ Alive /\ last.op = "modify_final_time" /\ last.arg = ecArgs.time
     /\ IsSome(ecArgs.final_value) /\ IsNone(ecArgs.rate)
     /\ Lt(0, ecArgs.principal) /\ Lt(0, ecArgs.final_value.val) /\ Lt(0, ecArgs.time))
        => Close(ec.final_value, ecArgs.final_value.val)

C10_Witness ==
    /\ Alive /\ last.op = "modify_final_time" /\ last.arg = ecArgs.time
    /\ prev.op = "modify_final_value" /\ ec.final_value # last.before
    /\ IsSome(ecArgs.final_value) /\ IsNone(ecArgs.rate)
    /\ Lt(ecArgs.final_value.val, ecArgs.principal)
====
